---------------------------- MODULE Spec2Model ----------------------------
(***************************************************************************)
(* Voice_Assisted_Diagnosis: the feature-extraction service src/main.py    *)
(* (POST /predict, POST /features) and the legacy service                  *)
(* src/backend/main.py (POST /analyze).                                    *)
(*                                                                         *)
(* Floating point values are records [kind, val]: a finite value carries   *)
(* an integer reading; NaN, +Inf and -Inf are their own kinds; "huge" is a *)
(* finite float64 beyond the float32 range.  The libraries the code calls  *)
(* (librosa, Praat through parselmouth, ffmpeg, the classifier) are the    *)
(* environment: what they answer for a recording is part of the recording. *)
(***************************************************************************)
EXTENDS Integers, Sequences, FiniteSets, TLC

(* ------------------------------ bounds -------------------------------- *)

\* at most this many call sites of one recording answer abnormally
MaxFaults == 1
\* glottal pulses Praat finds in a recording: 0..MaxPulses
MaxPulses == 2
\* durations range over MinDuration -/+ DurationSpread tenths of a second
DurationSpread == 2

(* ------------------------------ floats -------------------------------- *)

Fin(v) == [kind |-> "fin", val |-> v]
NaN == [kind |-> "nan", val |-> 0]
PosInf == [kind |-> "posinf", val |-> 0]
NegInf == [kind |-> "neginf", val |-> 0]
\* a finite float64 larger than the largest float32
Huge == [kind |-> "huge", val |-> 0]
\* the call raised
Raised == [kind |-> "raise", val |-> 0]
\* a Praat object (Sound, Pitch, PointProcess, Harmonicity)
Obj == [kind |-> "obj", val |-> 0]
\* the mapping the code indexes with "nth" and "htn"
NoiseMap == [kind |-> "map", val |-> 0]

IsFinite(v) == v.kind = "fin"

\* Python truthiness of a call result: 0.0 is falsy, an object or a
\* non-zero number (NaN and the infinities included) is truthy
Truthy(v) == ~(v.kind = "fin" /\ v.val = 0)

\* Python  x > 1  on a float (any comparison with NaN is False)
GreaterThanOne(v) ==
    CASE v.kind = "fin" -> v.val > 1
      [] v.kind \in {"posinf", "huge"} -> TRUE
      [] OTHER -> FALSE

\* Python  x - 1  on a float
MinusOne(v) == IF v.kind = "fin" THEN Fin(v.val - 1) ELSE v

\* np.array(..., dtype=np.float32): a float64 beyond the float32 range
\* overflows to +Inf
ToFloat32(v) == IF v.kind = "huge" THEN PosInf ELSE v

\* np.nan_to_num(x, nan=0.0, posinf=0.0, neginf=0.0), one element
nan_to_num_skipped(v) == v
nan_to_num(v) == IF v.kind \in {"nan", "posinf", "neginf"} THEN Fin(0) ELSE v


(* ------------------- the environment: recordings ---------------------- *)

\* duration < 0.5 is rejected; durations are in tenths of a second
MinDuration == 5

\* calls that raise into extract_features' own handler when they fail
BareSites == {"load", "sound", "pitch"}
\* safe_call sites that answer an object
ObjectSites == {"point_process", "harmonicity", "noise"}
JitterSites ==
    {"jitter_local", "jitter_abs", "jitter_rap", "jitter_ppq5", "jitter_ddp"}
ShimmerSites ==
    {"shimmer_local", "shimmer_db", "shimmer_apq3", "shimmer_apq5",
     "shimmer_apq11", "shimmer_dda"}
PointSites == JitterSites \cup ShimmerSites \cup {"pulses", "mean_period", "sd_period"}
PitchSites == {"fraction_unvoiced", "num_breaks", "degree_breaks"}
\* safe_call sites that answer a number
ScalarSites == PointSites \cup PitchSites \cup {"hnr"}
Sites == BareSites \cup ObjectSites \cup ScalarSites

\* the local variables of extract_features, in the order it computes them
Locals ==
    << "median_pitch", "mean_pitch", "std_pitch", "min_pitch", "max_pitch",
       "jitter_local", "jitter_abs", "jitter_rap", "jitter_ppq5", "jitter_ddp",
       "shimmer_local", "shimmer_db", "shimmer_apq3", "shimmer_apq5",
       "shimmer_apq11", "shimmer_dda",
       "hnr", "nth", "htn",
       "fraction_unvoiced", "num_breaks", "degree_breaks",
       "pulses", "periods", "mean_period", "sd_period" >>

\* a finite reading that differs from query to query, so that an element in
\* the wrong place of the vector shows
Reading(name) == 10 + CHOOSE i \in 1..Len(Locals) : Locals[i] = name

\* what a call answers when it does not answer normally
Abnormal(site) ==
    IF site \in ScalarSites THEN {Raised, NaN, PosInf, NegInf, Huge} ELSE {Raised}

NoFault == [s \in {} |-> Raised]
WithFault(f, site, o) ==
    [s \in DOMAIN f \cup {site} |-> IF s = site THEN o ELSE f[s]]

\* the assignments of abnormal answers to at most k call sites
RECURSIVE Faultings(_)
Faultings(k) ==
    IF k = 0 THEN {NoFault}
    ELSE LET less == Faultings(k - 1)
         IN  less \cup
             UNION { { WithFault(f, site, o) : o \in Abnormal(site) } :
                     f \in less, site \in Sites }

\* every numeric query answering the same abnormal value
Uniform(o) == [s \in ScalarSites |-> o]

Durations == (MinDuration - DurationSpread)..(MinDuration + DurationSpread)

\* A recording: whether ffmpeg / librosa can decode the upload, its duration,
\* whether its pitch contour has voiced frames, its glottal pulses, and the
\* call sites that answer abnormally on it.  An unvoiced recording has fewer
\* than two pulses.
RecordingsWith(faultings) ==
    { [decodable |-> TRUE, dur |-> d, voiced |-> v, pulses |-> n, faults |-> f] :
        d \in Durations, v \in BOOLEAN, n \in 0..MaxPulses, f \in faultings }

\* the recordings with at most k faults, or one fault on every numeric query
Recordings(k) ==
    { rec \in RecordingsWith(Faultings(k) \cup
                             { Uniform(o) : o \in {Raised, NaN, PosInf, NegInf, Huge} }) :
        rec.voiced \/ rec.pulses < 2 }

\* what Praat answers when nothing goes wrong
Nominal(rec, site) ==
    CASE site = "noise" -> NoiseMap
      [] site \in BareSites \cup ObjectSites -> Obj
      [] site = "pulses" -> Fin(rec.pulses)
      [] site \in PointSites ->
            \* perturbation and period statistics are undefined on fewer
            \* than two pulses
            IF rec.pulses < 2 THEN NaN ELSE Fin(Reading(site))
      [] site = "fraction_unvoiced" -> IF rec.voiced THEN Fin(0) ELSE Fin(1)
      [] site \in PitchSites -> IF rec.voiced THEN Fin(Reading(site)) ELSE Fin(0)
      [] OTHER -> Fin(Reading(site))

\* parselmouth.praat.call / parselmouth.Sound / librosa.load on this recording
Answer(rec, site) ==
    IF site \in DOMAIN rec.faults THEN rec.faults[site] ELSE Nominal(rec, site)

(* --------------------- src/main.py: extract_features ------------------ *)

\* safe_call(target, query, ...): a Praat error, and the TypeError of a call
\* on the 0.0 an earlier failure left, both give 0.0
safe_call_propagating(rec, target, site) ==
    IF target.kind # "obj" THEN Raised ELSE Answer(rec, site)
safe_call(rec, target, site) ==
    IF target.kind # "obj" THEN Fin(0)
    ELSE IF Answer(rec, site) = Raised THEN Fin(0)
    ELSE Answer(rec, site)

\* np.median / mean / std / min / max of the voiced frames, 0.0 without any
PitchStat(rec, name) == IF rec.voiced THEN Fin(Reading(name)) ELSE Fin(0)

\* lines 92-138: every local that goes into the vector
Measure(rec) ==
    LET point_process == safe_call(rec, Obj, "point_process")
        harmonicity == safe_call(rec, Obj, "harmonicity")
        noise == safe_call(rec, Obj, "noise")
        pulses == safe_call(rec, point_process, "pulses")
    IN  [ name \in { Locals[i] : i \in 1..Len(Locals) } |->
            CASE name \in {"median_pitch", "mean_pitch", "std_pitch",
                           "min_pitch", "max_pitch"} -> PitchStat(rec, name)
              [] name = "pulses" -> pulses
              [] name = "periods" ->
                    IF GreaterThanOne(pulses) THEN MinusOne(pulses) ELSE Fin(0)
              [] name \in PointSites -> safe_call(rec, point_process, name)
              [] name = "hnr" ->
                    IF Truthy(harmonicity) THEN safe_call(rec, harmonicity, "hnr")
                    ELSE Fin(0)
              [] name \in {"nth", "htn"} ->
                    IF Truthy(noise) THEN Fin(Reading(name)) ELSE Fin(0)
              [] OTHER -> safe_call(rec, Obj, name) ]

\* lines 141-148: the order in which np.array lists the locals
FeatureOrder ==
    << "jitter_local", "jitter_abs", "jitter_rap", "jitter_ppq5", "jitter_ddp",
       "shimmer_local", "shimmer_db", "shimmer_apq3", "shimmer_apq5",
       "shimmer_apq11", "shimmer_dda",
       "hnr", "nth", "htn",
       "median_pitch", "mean_pitch", "std_pitch", "min_pitch", "max_pitch",
       "pulses", "periods", "mean_period", "sd_period",
       "fraction_unvoiced", "num_breaks", "degree_breaks" >>

\* lines 141-153: compile as float32, then replace NaN and the infinities
CompileFeatures(locals) ==
    [ i \in 1..Len(FeatureOrder) |-> nan_to_num(ToFloat32(locals[FeatureOrder[i]])) ]

\* lines 157-159: whatever is raised inside becomes HTTPException(500)
ExtractionFailed(why, called) ==
    [raised |-> TRUE, status |-> 500, detail |-> <<"Feature extraction failed", why>>,
     features |-> << >>, called |-> called]

\* the Praat queries of a run that gets past the pitch tracker
QueriesAfterPitch == Sites \ {"load"}

\* line 86: duration < 0.5
too_short_inclusive(duration) == duration <= MinDuration
too_short(duration) == duration < MinDuration

extract_features(rec) ==
    IF Answer(rec, "load") = Raised
      THEN ExtractionFailed("load error", {})
    ELSE IF too_short(rec.dur)
      THEN ExtractionFailed("Audio too short for analysis", {})
    ELSE IF Answer(rec, "sound") = Raised
      THEN ExtractionFailed("sound error", {"sound"})
    ELSE IF Answer(rec, "pitch") = Raised
      THEN ExtractionFailed("pitch error", {"sound", "pitch"})
    ELSE [raised |-> FALSE, status |-> 200, detail |-> <<"ok", "ok">>,
          features |-> CompileFeatures(Measure(rec)),
          called |-> QueriesAfterPitch]

(* ------------------- src/main.py: the risk tier ----------------------- *)

\* scores are in hundredths: 0..MaxScore is 0.00..1.00
MaxScore == 100
HighThreshold == 70
ModerateThreshold == 40
Scores == 0..MaxScore

HighRisk ==
    [label |-> "High Risk", confidence |-> "high",
     recommendation |-> "Immediate clinical evaluation recommended"]
ModerateRisk ==
    [label |-> "Moderate Risk", confidence |-> "medium",
     recommendation |-> "Follow-up monitoring advised"]
LowRisk ==
    [label |-> "Low Risk", confidence |-> "low",
     recommendation |-> "Regular screening sufficient"]

risk_level_high_inclusive(s) ==
    IF s >= HighThreshold THEN HighRisk
    ELSE IF s > ModerateThreshold THEN ModerateRisk
    ELSE LowRisk
risk_level_moderate_inclusive(s) ==
    IF s > HighThreshold THEN HighRisk
    ELSE IF s >= ModerateThreshold THEN ModerateRisk
    ELSE LowRisk
\* lines 241-253
risk_level(s) ==
    IF s > HighThreshold THEN HighRisk
    ELSE IF s > ModerateThreshold THEN ModerateRisk
    ELSE LowRisk

(* ------------------- src/main.py: the responses ----------------------- *)

HTTPException(code, what, why) == [http |-> code, detail |-> <<what, why>>]
\* an exception no handler catches: the server answers 500
Unhandled(why) == [http |-> 500, detail |-> <<"Internal Server Error", why>>]
NoResponse == [http |-> 0, detail |-> <<"none", "none">>]

\* lines 255-265: feature_values[k] is features[k + 1] here
feature_stats(features) ==
    [jitter_local |-> features[1],
     jitter_abs |-> features[2],
     shimmer_local |-> features[6],
     hnr |-> features[12],
     mean_pitch |-> features[15],
     std_pitch |-> features[17],
     fraction_unvoiced |-> features[24]]

\* lines 267-284 (the timestamp and the metadata are left out)
predict_response(verdict, features) ==
    [http |-> 200,
     success |-> TRUE,
     analysis |-> [score |-> verdict.score,
                   percentage |-> verdict.score,
                   label |-> risk_level(verdict.score).label,
                   confidence |-> risk_level(verdict.score).confidence],
     features |-> feature_stats(features),
     recommendation |-> risk_level(verdict.score).recommendation]

\* lines 317-325
feature_names ==
    << "jitter_local", "jitter_abs", "jitter_rap", "jitter_ppq5", "jitter_ddp",
       "shimmer_local", "shimmer_db", "shimmer_apq3", "shimmer_apq5",
       "shimmer_apq11", "shimmer_dda",
       "hnr", "nth", "htn",
       "median_pitch", "mean_pitch", "std_pitch", "min_pitch", "max_pitch",
       "pulses", "periods", "mean_period", "sd_period",
       "fraction_unvoiced", "num_breaks", "degree_breaks" >>

\* lines 327-338: zip(feature_names, features[0])
features_response(features) ==
    [http |-> 200,
     success |-> TRUE,
     features |-> [ name \in { feature_names[i] : i \in 1..Len(feature_names) } |->
                      features[CHOOSE i \in 1..Len(feature_names) :
                                  feature_names[i] = name] ],
     count |-> Len(feature_names)]

\* lines 51-66: the converted file is created first; ffmpeg exiting non-zero
\* is CalledProcessError, which removes it and raises 400; ffmpeg not
\* starting is an OSError, which no handler here catches
convert_to_wav(rec, launches) ==
    IF ~launches THEN [outcome |-> "OSError", wav_exists |-> TRUE]
    ELSE IF ~rec.decodable THEN [outcome |-> "CalledProcessError", wav_exists |-> FALSE]
    ELSE [outcome |-> "ok", wav_exists |-> TRUE]

\* what the classifier does with a vector: it raises, or gives a score
Verdicts(scores) ==
    { [raised |-> FALSE, score |-> s] : s \in scores } \cup
    { [raised |-> TRUE, score |-> 0] }

\* lines 217-296, the try block of /predict with its handlers: the response,
\* the vector if one was extracted, whether the classifier was invoked.
\* wav_path is bound only when convert_to_wav returns.
predict_try(rec, launches, verdict) ==
    LET conv == convert_to_wav(rec, launches)
        ext == extract_features(rec)
    IN  IF conv.outcome = "CalledProcessError"
          THEN [resp |-> HTTPException(400, "Audio conversion failed", "ffmpeg stderr"),
                feats |-> << >>, called |-> {}, classified |-> FALSE,
                wav_path |-> FALSE, wav_exists |-> conv.wav_exists]
        ELSE IF conv.outcome = "OSError"
          THEN [resp |-> HTTPException(500, "Prediction failed", "ffmpeg not started"),
                feats |-> << >>, called |-> {}, classified |-> FALSE,
                wav_path |-> FALSE, wav_exists |-> conv.wav_exists]
        ELSE IF ext.raised
          THEN [resp |-> [http |-> ext.status, detail |-> ext.detail],
                feats |-> << >>, called |-> ext.called, classified |-> FALSE,
                wav_path |-> TRUE, wav_exists |-> conv.wav_exists]
        ELSE IF verdict.raised
          THEN [resp |-> HTTPException(500, "Prediction failed", "classifier error"),
                feats |-> ext.features, called |-> ext.called, classified |-> TRUE,
                wav_path |-> TRUE, wav_exists |-> conv.wav_exists]
        ELSE [resp |-> predict_response(verdict, ext.features),
              feats |-> ext.features, called |-> ext.called, classified |-> TRUE,
              wav_path |-> TRUE, wav_exists |-> conv.wav_exists]

\* lines 309-350, the try block of /features with its handlers
features_try(rec, launches) ==
    LET conv == convert_to_wav(rec, launches)
        ext == extract_features(rec)
    IN  IF conv.outcome = "CalledProcessError"
          THEN [resp |-> HTTPException(400, "Audio conversion failed", "ffmpeg stderr"),
                feats |-> << >>, called |-> {}, classified |-> FALSE,
                wav_path |-> FALSE, wav_exists |-> conv.wav_exists]
        ELSE IF conv.outcome = "OSError"
          THEN [resp |-> HTTPException(500, "Feature extraction failed", "ffmpeg not started"),
                feats |-> << >>, called |-> {}, classified |-> FALSE,
                wav_path |-> FALSE, wav_exists |-> conv.wav_exists]
        ELSE IF ext.raised
          THEN [resp |-> [http |-> ext.status, detail |-> ext.detail],
                feats |-> << >>, called |-> ext.called, classified |-> FALSE,
                wav_path |-> TRUE, wav_exists |-> conv.wav_exists]
        ELSE [resp |-> features_response(ext.features),
              feats |-> ext.features, called |-> ext.called, classified |-> FALSE,
              wav_path |-> TRUE, wav_exists |-> conv.wav_exists]

\* lines 291-296 and 345-350: the finally block, on the files of request r
cleanup(fs, r, try) ==
    (fs \ {<<r, "upload">>}) \
        (IF try.wav_path THEN {<<r, "wav">>} ELSE {})

(* --------------- src/backend/main.py: FeatureExtractor ---------------- *)

\* the states of numpy's global generator
RngPeriod == 4
NextRng(s) == (s + 1) % RngPeriod
\* np.random.uniform(lo, hi) in generator state s
uniform(lo, hi, s) == Fin(lo + ((hi - lo) * s) \div RngPeriod)

\* what a helper hands back: a number, or a list of numbers, and the
\* generator state it leaves
Number(v, s) == [iterable |-> FALSE, items |-> <<v>>, rng |-> s]
List(vs, s) == [iterable |-> TRUE, items |-> vs, rng |-> s]

\* the quantities the helpers measure with librosa
Measurements ==
    << "jitter_local", "jitter_abs", "shimmer_local", "mean_pitch", "std_pitch",
       "median_pitch", "min_pitch", "max_pitch", "pitch_range", "hnr" >>
\* a value librosa measured on the signal (in units of 1e-4, like the
\* draws), different from quantity to quantity
Measured(name) ==
    Fin(1000000 + CHOOSE i \in 1..Len(Measurements) : Measurements[i] = name)
\* piptrack finds more than one pitch value
HasPitch(rec) == rec.voiced
\* the percussive component has energy: anything but digital silence
HasEnergy(rec) == rec.voiced \/ rec.pulses > 0

\* lines 126-135
calculate_jitter(rec, s) ==
    IF HasPitch(rec) THEN Number(Measured("jitter_local"), s)
    ELSE Number(uniform(10, 50, s), NextRng(s))
\* lines 138-147
calculate_jitter_abs(rec, s) ==
    IF HasPitch(rec) THEN Number(Measured("jitter_abs"), s)
    ELSE Number(uniform(1, 5, s), NextRng(s))
\* lines 196-201
calculate_jitter_rap(rec, s) == Number(uniform(20, 40, s), NextRng(s))
calculate_jitter_ppq5(rec, s) == Number(uniform(30, 60, s), NextRng(s))
\* lines 150-158: rms has more than one frame on any audio that loads
calculate_shimmer(rec, s) ==
    IF rec.dur > 0 THEN Number(Measured("shimmer_local"), s)
    ELSE Number(uniform(200, 500, s), NextRng(s))
\* lines 192-213
calculate_shimmer_db(rec, s) == Number(uniform(1500, 2500, s), NextRng(s))
calculate_shimmer_apq3(rec, s) == Number(uniform(100, 200, s), NextRng(s))
calculate_shimmer_apq5(rec, s) == Number(uniform(200, 300, s), NextRng(s))
calculate_shimmer_apq11(rec, s) == Number(uniform(300, 400, s), NextRng(s))
\* lines 173-189: six statistics, or the six constants
extract_pitch(rec, s) ==
    IF HasPitch(rec)
      THEN List(<< Measured("mean_pitch"), Measured("std_pitch"),
                   Measured("median_pitch"), Measured("min_pitch"),
                   Measured("max_pitch"), Measured("pitch_range") >>, s)
      ELSE List(<< Fin(1000000), Fin(100000), Fin(1000000),
                   Fin(800000), Fin(1200000), Fin(400000) >>, s)
\* lines 160-170: one number either way
calculate_hnr_as_list(rec, s) ==
    IF HasEnergy(rec)
      THEN List(<< Measured("hnr"), Measured("hnr"), Measured("hnr") >>, s)
      ELSE List(<< uniform(150000, 250000, s),
                   uniform(150000, 250000, NextRng(s)),
                   uniform(150000, 250000, NextRng(NextRng(s))) >>,
                NextRng(NextRng(NextRng(s))))
calculate_hnr(rec, s) ==
    IF HasEnergy(rec) THEN Number(Measured("hnr"), s)
    ELSE Number(uniform(150000, 250000, s), NextRng(s))
\* lines 215-225
calculate_pulse_statistics(rec, s) ==
    List(<< uniform(5000, 10000, s), uniform(5000, 10000, NextRng(s)),
            uniform(5000, 10000, NextRng(NextRng(s))) >>,
         NextRng(NextRng(NextRng(s))))
calculate_voicing(rec, s) ==
    List(<< uniform(7000, 9000, s), uniform(1000, 3000, NextRng(s)) >>,
         NextRng(NextRng(s)))
calculate_additional_metrics(rec, s) ==
    List(<< uniform(0, 10000, s), uniform(0, 10000, NextRng(s)),
            uniform(0, 10000, NextRng(NextRng(s))) >>,
         NextRng(NextRng(NextRng(s))))

\* list.append(x) and list.extend(x): extend raises TypeError on a number
list_append(l, x) == [ok |-> l.ok, items |-> Append(l.items, x.items[1])]
list_extend(l, x) ==
    IF x.iterable THEN [ok |-> l.ok, items |-> l.items \o x.items]
    ELSE [ok |-> FALSE, items |-> l.items]

Take(seq, n) == SubSeq(seq, 1, IF Len(seq) < n THEN Len(seq) ELSE n)
Zeros(n) == [i \in 1..n |-> Fin(0)]

\* lines 109-115: pad with zeros or trim to 26
pad_or_trim(items) ==
    IF Len(items) < 26 THEN items \o Zeros(26 - Len(items))
    ELSE Take(items, 26)

\* lines 41-123.  The helpers run in order, each from the generator state
\* the one before left; the first exception (librosa.load, or an extend that
\* raises) ends the run in the handler of line 119, which returns zeros.
FeatureExtractor_extract_features(rec, s) ==
    IF ~rec.decodable \/ Answer(rec, "load") = Raised
      THEN [features |-> Zeros(26), rng |-> s, assembled |-> FALSE]
    ELSE
      LET j1 == calculate_jitter(rec, s)
          j2 == calculate_jitter_abs(rec, j1.rng)
          j3 == calculate_jitter_rap(rec, j2.rng)
          j4 == calculate_jitter_ppq5(rec, j3.rng)
          s1 == calculate_shimmer(rec, j4.rng)
          s2 == calculate_shimmer_db(rec, s1.rng)
          s3 == calculate_shimmer_apq3(rec, s2.rng)
          s4 == calculate_shimmer_apq5(rec, s3.rng)
          s5 == calculate_shimmer_apq11(rec, s4.rng)
          pitches == extract_pitch(rec, s5.rng)
          hnrs == calculate_hnr(rec, pitches.rng)
          pulses == calculate_pulse_statistics(rec, hnrs.rng)
          voicing == calculate_voicing(rec, pulses.rng)
          additional == calculate_additional_metrics(rec, voicing.rng)
          l0 == [ok |-> TRUE, items |-> << >>]
          l9 == list_append(list_append(list_append(list_append(list_append(
                list_append(list_append(list_append(list_append(l0,
                  j1), j2), j3), j4), s1), s2), s3), s4), s5)
          l12 == list_extend(l9, List(Take(pitches.items, 3), pitches.rng))
          l15 == list_extend(l12, List(SubSeq(pitches.items, 4, 6), pitches.rng))
          l18 == list_extend(l15, hnrs)
          l21 == list_extend(l18, pulses)
          l23 == list_extend(l21, voicing)
          l26 == list_extend(l23, additional)
      IN  IF ~l18.ok
            THEN [features |-> Zeros(26), rng |-> hnrs.rng, assembled |-> FALSE]
          ELSE [features |-> pad_or_trim(l26.items), rng |-> additional.rng,
                assembled |-> TRUE]

\* lines 265-271: the classifier's score, or a draw when no model is loaded
risk_score(verdict, m, s) ==
    IF m # "None" THEN [raised |-> verdict.raised, score |-> verdict.score, rng |-> s]
    ELSE [raised |-> FALSE, score |-> uniform(10, 90, s).val, rng |-> NextRng(s)]

\* lines 274-285
analyze_response(score, features) ==
    [http |-> 200,
     status |-> "success",
     risk_score |-> score,
     features |-> [jitter |-> features[1],
                   shimmer |-> features[5],
                   hnr |-> IF Len(features) > 15 THEN features[16] ELSE Fin(20),
                   pitch_variation |-> IF Len(features) > 1 THEN features[2] ELSE Fin(10)],
     waveform_data |-> Take(features, 50),
     message |-> "Analysis completed successfully"]

\* lines 300-309: the names GET /features of the backend lists
backend_feature_names ==
    << "jitter_local", "jitter_abs", "jitter_rap", "jitter_ppq5",
       "shimmer_local", "shimmer_db", "shimmer_apq3", "shimmer_apq5", "shimmer_apq11",
       "mean_pitch", "std_pitch", "median_pitch",
       "min_pitch", "max_pitch", "pitch_range",
       "hnr_1", "hnr_2", "hnr_3",
       "pulse_1", "pulse_2", "pulse_3",
       "voicing_prob", "unvoiced_prob",
       "metric_1", "metric_2", "metric_3" >>

(* ------------------------------ state --------------------------------- *)

VARIABLES
    artifact,       \* pd_model.pkl on disk: "present", "absent" or "corrupt"
    model,          \* src/main.py's global model
    started,        \* src/main.py's startup event has run
    backend_model,  \* src/backend/main.py's global model
    backend_up,     \* src/backend/main.py: "down", "up", or "crashed" on import
    rng,            \* the state of numpy's global generator in the backend
    req,            \* the requests: where each is, and what it got
    files,          \* the temporary files on disk: <<request, "upload" | "wav">>
    xrec,           \* the recording handed to extract_features on its own
    xres,           \* what extract_features did with it
    score,          \* a score handed to the tier mapping on its own
    assessment,     \* the tier it got
    runs_main,      \* the vectors of successive runs of extract_features on xrec
    runs_backend    \* the same for FeatureExtractor.extract_features

service == <<artifact, model, started, backend_model, backend_up, rng, req, files>>
vars == <<artifact, model, started, backend_model, backend_up, rng, req, files,
          xrec, xres, score, assessment, runs_main, runs_backend>>

\* what is not the services' state
alone == <<xrec, xres, score, assessment, runs_main, runs_backend>>

\* concurrent requests
MaxRequests == 2
Requests == 1..MaxRequests

\* bytes that neither ffmpeg nor librosa can decode
Garbage ==
    [decodable |-> FALSE, dur |-> 0, voiced |-> FALSE, pulses |-> 0, faults |-> NoFault]

\* the uploads the services are sent: undecodable bytes; decodable audio
\* shorter than 0.5 s and of exactly 0.5 s, voiced and silent; and audio that
\* ffmpeg converts but librosa.load cannot read
Uploads ==
    { Garbage } \cup
    { [decodable |-> TRUE, dur |-> d, voiced |-> v,
       pulses |-> IF v THEN MaxPulses ELSE 0, faults |-> NoFault] :
        d \in {MinDuration - DurationSpread, MinDuration}, v \in BOOLEAN } \cup
    { [decodable |-> TRUE, dur |-> MinDuration, voiced |-> TRUE, pulses |-> MaxPulses,
       faults |-> WithFault(NoFault, "load", Raised)] }

\* the scores the classifier is seen to give
SeenScores == {ModerateThreshold, HighThreshold + 1}

NoUpload ==
    [decodable |-> FALSE, dur |-> 0, voiced |-> FALSE, pulses |-> 0, faults |-> NoFault]
NotRun == [raised |-> FALSE, status |-> 0, detail |-> <<"none", "none">>,
           features |-> << >>, called |-> {}]
NoAssessment == [label |-> "none", confidence |-> "none", recommendation |-> "none"]

\* a request: where it is, its endpoint, the upload once it was read,
\* whether the conversion gave a WAV, the response, the vector extracted, the
\* Praat queries made, whether the classifier was invoked, and the model
\* the handler saw
Idle ==
    [pc |-> "idle", endpoint |-> "none", read |-> FALSE, rec |-> NoUpload,
     converted |-> FALSE, resp |-> NoResponse, feats |-> << >>, called |-> {},
     classified |-> FALSE, by |-> "none"]

\* the request ended before its upload was read
Refused(r, endpoint, resp, by) ==
    [req EXCEPT ![r] =
        [Idle EXCEPT !.pc = "done", !.endpoint = endpoint, !.resp = resp, !.by = by]]

\* the request ended after its upload was read
Finished(r, endpoint, rec, try, by) ==
    [req EXCEPT ![r] =
        [pc |-> "done", endpoint |-> endpoint, read |-> TRUE, rec |-> rec,
         converted |-> try.wav_path, resp |-> try.resp, feats |-> try.feats,
         called |-> try.called, classified |-> try.classified, by |-> by]]

ServiceIdle ==
    /\ model = "None"
    /\ started = FALSE
    /\ backend_model = "None"
    /\ backend_up = "down"
    /\ req = [r \in Requests |-> Idle]
    /\ files = {}

AloneIdle ==
    /\ xrec = NoUpload
    /\ xres = NotRun
    /\ score = 0
    /\ assessment = NoAssessment
    /\ runs_main = << >>
    /\ runs_backend = << >>

\* src/main.py's service before its startup event
Init ==
    /\ artifact \in {"present", "absent", "corrupt"}
    /\ rng = 0
    /\ ServiceIdle
    /\ AloneIdle

(* ---------------------- src/main.py: the handlers --------------------- *)

\* lines 29-49
startup_event ==
    /\ ~started
    /\ started' = TRUE
    /\ model' = CASE artifact = "present" -> "Trained"
                  [] artifact = "absent" -> "Dummy"
                  [] OTHER -> "None"
    /\ UNCHANGED <<artifact, backend_model, backend_up, rng, req, files, alone>>

\* lines 205-214: /predict up to  await file.read()
predict_receive(r) ==
    /\ started
    /\ req[r].pc = "idle"
    /\ \E audio \in BOOLEAN :
          IF model = "None"
            THEN /\ req' = Refused(r, "predict",
                                   HTTPException(503, "Model not loaded", "none"), model)
                 /\ files' = files
          ELSE IF ~audio
            THEN /\ req' = Refused(r, "predict",
                                   HTTPException(400, "File must be an audio file", "none"),
                                   model)
                 /\ files' = files
          ELSE /\ req' = [req EXCEPT ![r].pc = "reading", ![r].endpoint = "predict",
                                      ![r].by = model]
               /\ files' = files \cup {<<r, "upload">>}
    /\ UNCHANGED <<artifact, model, started, backend_model, backend_up, rng, alone>>

\* lines 214-296: /predict from the read of the upload to the response
predict_handle(r) ==
    /\ req[r].pc = "reading"
    /\ req[r].endpoint = "predict"
    /\ \E read \in BOOLEAN :
          IF ~read
            THEN /\ req' = Refused(r, "predict", Unhandled("upload not read"), model)
                 /\ files' = files
          ELSE \E rec \in Uploads, launches \in BOOLEAN, verdict \in Verdicts(SeenScores) :
               LET try == predict_try(rec, launches, verdict)
               IN  /\ req' = Finished(r, "predict", rec, try, model)
                   /\ files' = cleanup(
                          IF try.wav_exists THEN files \cup {<<r, "wav">>} ELSE files,
                          r, try)
    /\ UNCHANGED <<artifact, model, started, backend_model, backend_up, rng, alone>>

\* lines 304-306: /features up to  await file.read()
features_receive(r) ==
    /\ started
    /\ req[r].pc = "idle"
    /\ req' = [req EXCEPT ![r].pc = "reading", ![r].endpoint = "features"]
    /\ files' = files \cup {<<r, "upload">>}
    /\ UNCHANGED <<artifact, model, started, backend_model, backend_up, rng, alone>>

\* lines 306-350: /features from the read of the upload to the response
extract_features_only(r) ==
    /\ req[r].pc = "reading"
    /\ req[r].endpoint = "features"
    /\ \E read \in BOOLEAN :
          IF ~read
            THEN /\ req' = Refused(r, "features", Unhandled("upload not read"), model)
                 /\ files' = files
          ELSE \E rec \in Uploads, launches \in BOOLEAN :
               LET try == features_try(rec, launches)
               IN  /\ req' = Finished(r, "features", rec, try, model)
                   /\ files' = cleanup(
                          IF try.wav_exists THEN files \cup {<<r, "wav">>} ELSE files,
                          r, try)
    /\ UNCHANGED <<artifact, model, started, backend_model, backend_up, rng, alone>>

\* lines 161-175: GET /
root(r) ==
    /\ started
    /\ req[r].pc = "idle"
    /\ req' = Refused(r, "root", [http |-> 200, name |-> "NeuroVoice AI API"], "none")
    /\ UNCHANGED <<artifact, model, started, backend_model, backend_up, rng, files, alone>>

\* GET /health, were it to load the model file again when it answers
health_check_reloading(r) ==
    /\ started
    /\ req[r].pc = "idle"
    /\ model' = IF artifact = "present" THEN "Trained" ELSE "None"
    /\ req' = Refused(r, "health",
                      [http |-> 200, status |-> "healthy", model_loaded |-> model' # "None"],
                      model')
    /\ UNCHANGED <<artifact, started, backend_model, backend_up, rng, files, alone>>

\* lines 177-184: GET /health reads the model handle
health_check(r) ==
    /\ started
    /\ req[r].pc = "idle"
    /\ req' = Refused(r, "health",
                      [http |-> 200, status |-> "healthy", model_loaded |-> model # "None"],
                      model)
    /\ UNCHANGED <<artifact, model, started, backend_model, backend_up, rng, files, alone>>

\* lines 186-197: GET /info reads the model handle and its attributes
model_info(r) ==
    /\ started
    /\ req[r].pc = "idle"
    /\ req' = Refused(r, "info",
                      IF model = "None"
                        THEN HTTPException(503, "Model not loaded", "none")
                        ELSE [http |-> 200, model_type |-> model],
                      model)
    /\ UNCHANGED <<artifact, model, started, backend_model, backend_up, rng, files, alone>>

(* ------------------ src/backend/main.py: the handlers ----------------- *)

\* lines 25-35, at import: only FileNotFoundError is caught
backend_import ==
    /\ backend_up = "down"
    /\ backend_up' = IF artifact = "corrupt" THEN "crashed" ELSE "up"
    /\ backend_model' = IF artifact = "present" THEN "Trained" ELSE "None"
    /\ UNCHANGED <<artifact, model, started, rng, req, files, alone>>

\* lines 253-256: /analyze up to  await audio.read()
analyze_receive(r) ==
    /\ backend_up = "up"
    /\ req[r].pc = "idle"
    /\ req' = [req EXCEPT ![r].pc = "reading", ![r].endpoint = "analyze"]
    /\ files' = files \cup {<<r, "upload">>}
    /\ UNCHANGED <<artifact, model, started, backend_model, backend_up, rng, alone>>

\* lines 256-295: /analyze from the read of the upload to the response
analyze_voice(r) ==
    /\ req[r].pc = "reading"
    /\ req[r].endpoint = "analyze"
    /\ \E read \in BOOLEAN :
          IF ~read
            THEN /\ req' = Refused(r, "analyze",
                                   HTTPException(500, "Analysis failed", "upload not read"),
                                   backend_model)
                 /\ files' = files
                 /\ rng' = rng
          ELSE \E rec \in Uploads, verdict \in Verdicts(SeenScores) :
               LET ext == FeatureExtractor_extract_features(rec, rng)
                   risk == risk_score(verdict, backend_model, ext.rng)
               IN  /\ req' = Finished(r, "analyze", rec,
                                [wav_path |-> FALSE,
                                 resp |-> IF risk.raised
                                   THEN HTTPException(500, "Analysis failed", "classifier error")
                                   ELSE analyze_response(risk.score, ext.features),
                                 feats |-> ext.features, called |-> {},
                                 classified |-> backend_model # "None"],
                                backend_model)
                   /\ files' = files \ {<<r, "upload">>}
                   /\ rng' = risk.rng
    /\ UNCHANGED <<artifact, model, started, backend_model, backend_up, alone>>

\* lines 227-239: GET / of the backend reads the model handle
backend_root(r) ==
    /\ backend_up = "up"
    /\ req[r].pc = "idle"
    /\ req' = Refused(r, "backend_root",
                      [http |-> 200, status |-> "active",
                       model_loaded |-> backend_model # "None"],
                      backend_model)
    /\ UNCHANGED <<artifact, model, started, backend_model, backend_up, rng, files, alone>>

\* lines 241-248: GET /health of the backend reads the model handle
backend_health_check(r) ==
    /\ backend_up = "up"
    /\ req[r].pc = "idle"
    /\ req' = Refused(r, "backend_health",
                      [http |-> 200, status |-> "healthy",
                       model_loaded |-> backend_model # "None"],
                      backend_model)
    /\ UNCHANGED <<artifact, model, started, backend_model, backend_up, rng, files, alone>>

\* lines 297-315: GET /features of the backend
get_feature_list(r) ==
    /\ backend_up = "up"
    /\ req[r].pc = "idle"
    /\ req' = Refused(r, "feature_list",
                      [http |-> 200, feature_count |-> Len(backend_feature_names),
                       features |-> backend_feature_names],
                      "none")
    /\ UNCHANGED <<artifact, model, started, backend_model, backend_up, rng, files, alone>>

Next ==
    \/ startup_event
    \/ \E r \in Requests :
          \/ root(r)
          \/ health_check(r)
          \/ model_info(r)
          \/ predict_receive(r)
          \/ predict_handle(r)
          \/ features_receive(r)
          \/ extract_features_only(r)

Spec == Init /\ [][Next]_vars

\* src/backend/main.py's process before the module is imported; numpy seeds
\* its generator from the system
InitBackend ==
    /\ artifact \in {"present", "absent", "corrupt"}
    /\ rng \in 0..(RngPeriod - 1)
    /\ ServiceIdle
    /\ AloneIdle

NextBackend ==
    \/ backend_import
    \/ \E r \in Requests :
          \/ backend_root(r)
          \/ backend_health_check(r)
          \/ get_feature_list(r)
          \/ analyze_receive(r)
          \/ analyze_voice(r)

SpecBackend == InitBackend /\ [][NextBackend]_vars

(* ------------------- both services, side by side ---------------------- *)

\* the two applications deployed next to each other, from the same model file
NextServices == Next \/ NextBackend

SpecServices == InitBackend /\ [][NextServices]_vars

(* ------------------ extract_features on its own ----------------------- *)

InitExtract ==
    /\ artifact = "present"
    /\ rng = 0
    /\ ServiceIdle
    /\ xrec \in Recordings(MaxFaults)
    /\ xres = NotRun
    /\ score = 0
    /\ assessment = NoAssessment
    /\ runs_main = << >>
    /\ runs_backend = << >>

ExtractStep ==
    /\ xres = NotRun
    /\ xres' = extract_features(xrec)
    /\ UNCHANGED <<service, xrec, score, assessment, runs_main, runs_backend>>

NextExtract == ExtractStep

SpecExtract == InitExtract /\ [][NextExtract]_vars

(* -------------------- the tier mapping on its own --------------------- *)

InitTier ==
    /\ artifact = "present"
    /\ rng = 0
    /\ ServiceIdle
    /\ xrec = NoUpload
    /\ xres = NotRun
    /\ score \in Scores
    /\ assessment = NoAssessment
    /\ runs_main = << >>
    /\ runs_backend = << >>

TierStep ==
    /\ assessment = NoAssessment
    /\ assessment' = risk_level(score)
    /\ UNCHANGED <<service, xrec, xres, score, runs_main, runs_backend>>

NextTier == TierStep

SpecTier == InitTier /\ [][NextTier]_vars

(* ------------- both extractors run again on the same bytes ------------ *)

\* runs of each extractor on one input
MaxRuns == 2

\* the inputs run twice: undecodable bytes, and every fault-free recording
Inputs ==
    { Garbage } \cup { rec \in RecordingsWith({NoFault}) : rec.voiced \/ rec.pulses < 2 }

InitTwice ==
    /\ artifact = "present"
    /\ rng \in 0..(RngPeriod - 1)
    /\ ServiceIdle
    /\ xrec \in Inputs
    /\ xres = NotRun
    /\ score = 0
    /\ assessment = NoAssessment
    /\ runs_main = << >>
    /\ runs_backend = << >>

\* one more run of src/main.py's extract_features on the input
RunMain ==
    /\ Len(runs_main) < MaxRuns
    /\ runs_main' = Append(runs_main, extract_features(xrec))
    /\ UNCHANGED <<service, xrec, xres, score, assessment, runs_backend>>

\* one more run of FeatureExtractor.extract_features on the input, from the
\* generator state the run before left
RunBackend ==
    /\ Len(runs_backend) < MaxRuns
    /\ LET ext == FeatureExtractor_extract_features(xrec, rng)
       IN  /\ runs_backend' = Append(runs_backend, ext)
           /\ rng' = ext.rng
    /\ UNCHANGED <<artifact, model, started, backend_model, backend_up, req, files,
                   xrec, xres, score, assessment, runs_main>>

NextTwice == RunMain \/ RunBackend

SpecTwice == InitTwice /\ [][NextTwice]_vars

(* ====================== the feature vector ============================ *)

\* the canonical order of the vector, by the name of the local of
\* extract_features that holds each quantity: noise_to_harmonic is nth,
\* harmonic_to_noise is htn, pulse_count is pulses, period_count is periods,
\* num_voice_breaks is num_breaks, degree_voice_breaks is degree_breaks
CanonicalOrder ==
    << "jitter_local", "jitter_abs", "jitter_rap", "jitter_ppq5", "jitter_ddp",
       "shimmer_local", "shimmer_db", "shimmer_apq3", "shimmer_apq5",
       "shimmer_apq11", "shimmer_dda",
       "hnr", "nth", "htn",
       "median_pitch", "mean_pitch", "std_pitch", "min_pitch", "max_pitch",
       "pulses", "periods", "mean_period", "sd_period",
       "fraction_unvoiced", "num_breaks", "degree_breaks" >>

VectorLength == 26

Returned(res) == res # NotRun /\ ~res.raised

\* the value the sub-metric has if it is a finite float32, else 0.0
Sanitized(v) == IF v.kind = "fin" THEN v ELSE Fin(0)

\* C1: every call of extract_features that returns, returns exactly 26
\* values, all finite, element i being the sub-metric the canonical order
\* puts at i, or 0.0 where that sub-metric was NaN, infinite or failed.
C1_FeatureVectorContract ==
    Returned(xres) =>
        /\ xrec.dur >= MinDuration
        /\ Len(xres.features) = VectorLength
        /\ Len(CanonicalOrder) = VectorLength
        /\ \A i \in 1..VectorLength :
              /\ IsFinite(xres.features[i])
              /\ xres.features[i] = Sanitized(Measure(xrec)[CanonicalOrder[i]])

\* a returned vector of a run in which one sub-metric was NaN and another
\* +Inf or -Inf
C1_Witness ==
    /\ Returned(xres)
    /\ \E n \in DOMAIN Measure(xrec) : Measure(xrec)[n] = NaN
    /\ \E n \in DOMAIN Measure(xrec) : Measure(xrec)[n] \in {PosInf, NegInf}
    /\ \E i \in 1..VectorLength : xres.features[i] # Fin(0)

\* the locals a failed call site leaves at their default
AffectedBy(site) ==
    CASE site = "point_process" -> PointSites \cup {"periods"}
      [] site = "pulses" -> {"pulses", "periods"}
      [] site = "harmonicity" -> {"hnr"}
      [] site = "noise" -> {"nth", "htn"}
      [] site = "pitch" -> PitchSites \cup {"median_pitch", "mean_pitch",
                                           "std_pitch", "min_pitch", "max_pitch"}
      [] OTHER -> {site}

Position(name) == CHOOSE i \in 1..Len(CanonicalOrder) : CanonicalOrder[i] = name

\* the audio was read and is long enough: whatever fails is a sub-metric
Ingested(rec) ==
    /\ rec.dur >= MinDuration
    /\ Answer(rec, "load") # Raised
    /\ Answer(rec, "sound") # Raised

\* C8: on audio of at least 0.5 s, a sub-metric computation that fails
\* (pitch tracking included) leaves 0.0 in the metrics it feeds and the call
\* still returns the 26-element vector.
C8_SubMetricFailureAbsorbed ==
    (xres # NotRun /\ Ingested(xrec)) =>
        /\ ~xres.raised
        /\ Len(xres.features) = VectorLength
        /\ \A site \in Sites \ {"load", "sound"} :
              Answer(xrec, site) = Raised =>
                 \A name \in AffectedBy(site) :
                    xres.features[Position(name)] = Fin(0)

\* silent or fully unvoiced audio of at least 0.5 s: the pitch contour was
\* computed and is empty, and there are fewer than two pulses
SilentInput(rec) ==
    /\ Ingested(rec)
    /\ Answer(rec, "pitch") # Raised
    /\ ~rec.voiced
    /\ rec.pulses < 2
    \* every frame is unvoiced: the query answers 1.0 if it answers
    /\ Answer(rec, "fraction_unvoiced") \in {Fin(1), Raised}

PerturbationIndices == 1..11
FractionUnvoicedIndex == 24

Assessed == assessment # NoAssessment

\* C2: the tier is a function of the score alone: above 0.7 "High Risk" with
\* immediate evaluation, above 0.4 and at most 0.7 "Moderate Risk" with
\* follow-up monitoring, at most 0.4 "Low Risk" with regular screening;
\* label and recommendation always belong to the same tier.
C2_TierByThresholds ==
    Assessed =>
        /\ score > 70 =>
              /\ assessment.label = "High Risk"
              /\ assessment.recommendation = "Immediate clinical evaluation recommended"
        /\ (score > 40 /\ score <= 70) =>
              /\ assessment.label = "Moderate Risk"
              /\ assessment.recommendation = "Follow-up monitoring advised"
        /\ score <= 40 =>
              /\ assessment.label = "Low Risk"
              /\ assessment.recommendation = "Regular screening sufficient"
        /\ assessment \in {HighRisk, ModerateRisk, LowRisk}

\* a score strictly between the thresholds, assessed
C2_Witness ==
    /\ Assessed
    /\ score = 55
    /\ assessment.label = "Moderate Risk"

\* C3 as stated: 0.7 is "Moderate Risk", 0.4 is "Moderate Risk", 0.71 is
\* "High Risk".
C3_BoundariesAsStated ==
    Assessed =>
        /\ score = 70 => assessment.label = "Moderate Risk"
        /\ score = 40 => assessment.label = "Moderate Risk"
        /\ score = 71 => assessment.label = "High Risk"

\* C3, amended: 0.7 is "Moderate Risk", 0.4 is "Low Risk", 0.71 is
\* "High Risk".
C3_Boundaries ==
    Assessed =>
        /\ score = 70 => assessment.label = "Moderate Risk"
        /\ score = 40 => assessment.label = "Low Risk"
        /\ score = 71 => assessment.label = "High Risk"

\* the score 0.4, assessed as low
C3_Witness ==
    /\ Assessed
    /\ score = 40
    /\ assessment.label = "Low Risk"

(* ===================== the requests of src/main.py ==================== *)

Done(r) == req[r].pc = "done"
Succeeded(r) == Done(r) /\ req[r].resp.http = 200
Failed(r) == Done(r) /\ req[r].resp.http >= 400

\* the request got its upload converted to WAV: extract_features was called
Decoded(r) == Done(r) /\ req[r].endpoint \in {"predict", "features"} /\ req[r].converted

\* the error response says the audio is too short
TooShortError(r) ==
    Failed(r) /\ req[r].resp.detail[2] = "Audio too short for analysis"

\* C4: a request to /predict or /features whose decoded audio is shorter
\* than 0.5 s ends in an error that says the audio is too short; no vector
\* is returned, no Praat query is made and the classifier is not invoked.
\* Audio of exactly 0.5 s is not rejected for its duration.
C4_TooShortRejected ==
    \A r \in Requests :
        Decoded(r) =>
            /\ req[r].rec.dur < 5 =>
                  /\ TooShortError(r)
                  /\ req[r].feats = << >>
                  /\ req[r].called = {}
                  /\ ~req[r].classified
            /\ req[r].rec.dur = 5 => ~TooShortError(r)

\* a decoded upload shorter than 0.5 s was rejected, and one of exactly
\* 0.5 s was answered with a vector
C4_Witness ==
    \E r, q \in Requests :
        /\ Decoded(r) /\ req[r].rec.dur < 5 /\ Failed(r)
        /\ Decoded(q) /\ req[q].rec.dur = 5 /\ Succeeded(q)
        /\ Len(req[q].feats) = VectorLength

\* C6: once a request has finished, on every exit path, no temporary file
\* created for it (the staged upload, the converted WAV) is left.
C6_NoTempFileOutlivesRequest ==
    \A r \in Requests :
        Done(r) => \A kind \in {"upload", "wav"} : <<r, kind>> \notin files

(* ================ the requests of src/backend/main.py ================= *)

\* C5: with the model artifact absent at startup the service starts, and
\* every prediction it answers carries the marker simulated: true.
C5_SimulationFlagged ==
    /\ (artifact = "absent" /\ backend_up # "down") => backend_up = "up"
    /\ \A r \in Requests :
          (Succeeded(r) /\ req[r].endpoint \in {"predict", "analyze"}
                        /\ artifact = "absent") =>
              /\ "simulated" \in DOMAIN req[r].resp
              /\ req[r].resp.simulated = TRUE

\* C10: a request whose upload cannot be decoded ends with an error
\* response, never with a success carrying a risk score or feature values.
C10_UndecodableIsFatal ==
    \A r \in Requests :
        (Done(r) /\ req[r].read /\ ~req[r].rec.decodable) => Failed(r)

(* ===================== extraction run again =========================== *)

ReadsModel == {"health", "info", "predict"}
ReadsBackendModel == {"backend_root", "backend_health", "analyze"}

\* the request has read a model handle
Observed(r) ==
    /\ req[r].endpoint \in ReadsModel \cup ReadsBackendModel
    /\ \/ req[r].pc = "done"
       \/ req[r].pc = "reading" /\ req[r].endpoint = "predict"

\* the handle of the module the request's endpoint belongs to
Handle(r) == IF req[r].endpoint \in ReadsModel THEN model ELSE backend_model

\* C11: once startup (src/main.py) or the import (src/backend/main.py) has
\* assigned the module's model handle, no step of any request handler, in
\* any interleaving of the requests, changes it, and the value every request
\* read is the value the handle has: the one initialization left.
C11_ModelReadOnly ==
    /\ [][ /\ started => model' = model
           /\ backend_up # "down" => backend_model' = backend_model ]_vars
    /\ [](\A r \in Requests : Observed(r) => req[r].by = Handle(r))

\* two requests overlap: /predict has read the handle and waits for its
\* upload, while a request to the other service has been classified by that
\* service's model
C11_Witness ==
    /\ started
    /\ model # "None"
    /\ \E r1, r2 \in Requests :
          /\ r1 # r2
          /\ req[r1].pc = "reading" /\ req[r1].endpoint = "predict"
          /\ req[r1].by = model
          /\ req[r2].pc = "done" /\ req[r2].endpoint = "analyze"
          /\ req[r2].classified
          /\ req[r2].by = backend_model

(* ------------------------ conversion errors --------------------------- *)

\* the request's upload was read and handed to convert_to_wav
Transcoded(r) ==
    Done(r) /\ req[r].endpoint \in {"predict", "features"} /\ req[r].read

\* the response is the conversion error: 400 "Audio conversion failed: ..."
ConversionError(r) ==
    /\ Failed(r)
    /\ req[r].resp.http = 400
    /\ req[r].resp.detail[1] = "Audio conversion failed"

\* C12: in /predict and /features the response is the conversion error
\* (400 "Audio conversion failed") exactly when the transcoding step failed,
\* whether ffmpeg exited non-zero or could not be started: no failure of the
\* conversion is reported as anything else, and no failure of the feature
\* extraction or of the prediction is reported as a conversion error.
C12_ConversionErrorsDistinct ==
    \A r \in Requests :
        Transcoded(r) => (~req[r].converted <=> ConversionError(r))

(* ------------------- the features /predict reports -------------------- *)

\* the place of a name in the canonical order, counted from 1
CanonicalIndex(name) ==
    CHOOSE i \in 1..Len(CanonicalOrder) : CanonicalOrder[i] = name

\* the names /predict reports values under
ReportedNames ==
    {"jitter_local", "jitter_abs", "shimmer_local", "hnr", "mean_pitch",
     "std_pitch", "fraction_unvoiced"}

\* C13: in every successful /predict response the "features" object has
\* the seven reported names, and the value under each name is the element of
\* the extracted vector at that name's canonical index (mean_pitch is
\* element 15 counted from 0), which is also the value /features reports
\* under that name for the same vector.
C13_ReportedFeaturesByName ==
    \A r \in Requests :
        Succeeded(r) /\ req[r].endpoint = "predict" =>
            /\ DOMAIN req[r].resp.features = ReportedNames
            /\ \A name \in ReportedNames :
                  /\ req[r].resp.features[name] = req[r].feats[CanonicalIndex(name)]
                  /\ req[r].resp.features[name] =
                        features_response(req[r].feats).features[name]

(* ------------- when the backend's extractor returns zeros ------------- *)

\* librosa.load reads the input
Loads(rec) == rec.decodable /\ Answer(rec, "load") # Raised

\* C14: FeatureExtractor.extract_features of src/backend/main.py returns
\* the 1x26 zero vector only when extraction fails: on every run on an input
\* that librosa.load reads (each helper returns a value, as each catches its
\* own exceptions), the vector returned is the assembled one, of as many
\* elements as GET /features lists names, and its first element is the
\* jitter the first helper returned, not the zero of the failure path.
C14_ZerosOnlyOnFailure ==
    \A i \in 1..Len(runs_backend) :
        Loads(xrec) =>
            /\ runs_backend[i].assembled
            /\ Len(runs_backend[i].features) = Len(backend_feature_names)
            /\ runs_backend[i].features # Zeros(Len(backend_feature_names))
            /\ \E s \in 0..(RngPeriod - 1) :
                  runs_backend[i].features[1] = calculate_jitter(xrec, s).items[1]

=============================================================================
